---- MODULE Spec2Model ----
(***************************************************************************)
(* A model of the CSV table library of src/cfu/cfu.py: the class BasicCsv  *)
(* (load, save, append, search, sort, delete, update) and its subclass     *)
(* ColMan (add / move / remove / rename column, value update), for one     *)
(* table object bound to its own file.                                     *)
(*                                                                         *)
(* The file is modelled at the level of the csv module's rows: a file is   *)
(* a sequence of lines and a line is a sequence of cells, as csv.reader    *)
(* yields them and csv.writer writes them.  A record in memory is a        *)
(* function from its keys to its values, as a Python dict.                 *)
(***************************************************************************)
EXTENDS Integers, Sequences, FiniteSets, TLC

VARIABLES file, fields, data, op, ret, calls

vars == <<file, fields, data, op, ret, calls>>

(***************************************************************************)
(* Bounds of the model.                                                    *)
(***************************************************************************)
MaxRows == 3
MaxCols == 3
MaxCalls == 3

Range(s) == {s[i] : i \in DOMAIN s}

(***************************************************************************)
(* Text.  Cell values and column names are Python str objects; None is the *)
(* one non-text value a record can hold (add_column's default value).      *)
(* CodePoints gives the characters of each text the model uses, so that    *)
(* float() and the comparison of str objects are computed from characters. *)
(***************************************************************************)
NoneVal == "<None>"

CodePoints(s) ==
    CASE s = ""     -> <<>>
      [] s = "9"    -> <<57>>
      [] s = "10"   -> <<49, 48>>
      [] s = "a"    -> <<97>>
      [] s = "c"    -> <<99>>
      [] s = "id"   -> <<105, 100>>
      [] s = "name" -> <<110, 97, 109, 101>>

IsDigit(ch) == ch \in 48..57

\* float(s) succeeds: over the model's alphabet (digits and lower-case
\* letters, no sign, point, exponent, blank, "inf" or "nan") exactly the
\* non-empty strings of digits parse.
ParsesAsFloat(s) ==
    LET cs == CodePoints(s)
    IN  cs # <<>> /\ \A i \in DOMAIN cs : IsDigit(cs[i])

RECURSIVE DecimalValue(_)
DecimalValue(cs) ==
    IF cs = <<>> THEN 0
    ELSE 10 * DecimalValue(SubSeq(cs, 1, Len(cs) - 1)) + (cs[Len(cs)] - 48)

\* float(s) for a string that parses
FloatOf(s) == DecimalValue(CodePoints(s))

\* a < b for two str objects: code point by code point, a proper prefix first
RECURSIVE SeqLess(_, _)
SeqLess(a, b) ==
    IF b = <<>> THEN FALSE
    ELSE IF a = <<>> THEN TRUE
    ELSE IF a[1] # b[1] THEN a[1] < b[1]
    ELSE SeqLess(Tail(a), Tail(b))

StrLess(a, b) == SeqLess(CodePoints(a), CodePoints(b))

\* str(n) for a non-negative int
DigitStr(d) ==
    CASE d = 0 -> "0" [] d = 1 -> "1" [] d = 2 -> "2" [] d = 3 -> "3"
      [] d = 4 -> "4" [] d = 5 -> "5" [] d = 6 -> "6" [] d = 7 -> "7"
      [] d = 8 -> "8" [] d = 9 -> "9"

RECURSIVE IntStr(_)
IntStr(n) == IF n < 10 THEN DigitStr(n) ELSE IntStr(n \div 10) \o DigitStr(n % 10)

\* a del_data that compares the cell with del_value itself: an int equals no cell
PyStr_NotConverted(v) == v.s

\* str(v) of a del_value, which is a str or an int
PyStr(v) == IF v.kind = "int" THEN IntStr(v.n) ELSE v.s

(***************************************************************************)
(* The file, as the csv module sees it.                                    *)
(***************************************************************************)
NoFile == [exists |-> FALSE, lines |-> <<>>]

FileOf(lines) == [exists |-> TRUE, lines |-> lines]

\* the three operations without their guard
FileMissing_NotChecked(f) == FALSE

\* the guard of sort_by, del_data and update_value: "if not
\* os.path.exists(file_name): raise FileNotFoundError"
FileMissing(f) == ~f.exists

\* dict(zip(fieldnames, row)) plus DictReader's restkey / restval handling:
\* a later duplicate name wins, a short row is padded with None (restval) and
\* the surplus cells of a long row are collected under the key None (restkey).
LastIndexOf(seq, x) ==
    CHOOSE i \in DOMAIN seq : seq[i] = x /\ \A j \in DOMAIN seq : seq[j] = x => j <= i

ReaderRow(fieldnames, row) ==
    LET lf == Len(fieldnames)
        lr == Len(row)
        n  == IF lf < lr THEN lf ELSE lr
        zipped == [k \in {fieldnames[i] : i \in 1..n} |->
                      row[LastIndexOf(SubSeq(fieldnames, 1, n), k)]]
        padded == [k \in Range(fieldnames) |->
                      IF k \in DOMAIN zipped THEN zipped[k] ELSE NoneVal]
    IN  IF lf < lr THEN zipped @@ (NoneVal :> SubSeq(row, lf + 1, lr))
        ELSE padded

\* the rows DictReader yields: the lines after the header, blank lines skipped
RECURSIVE ReaderRows(_, _)
ReaderRows(fieldnames, lines) ==
    IF lines = <<>> THEN <<>>
    ELSE IF Head(lines) = <<>> THEN ReaderRows(fieldnames, Tail(lines))
    ELSE <<ReaderRow(fieldnames, Head(lines))>> \o ReaderRows(fieldnames, Tail(lines))

\* _load_csv(file_name): the returned rows and the value self.fields has
\* afterwards.  A missing file, an empty file and an empty header line all
\* leave self.fields as it was.
load_csv(f, flds) ==
    IF ~f.exists \/ f.lines = <<>>
    THEN [data |-> <<>>, fields |-> flds]
    ELSE LET fieldnames == Head(f.lines)
         IN  [data   |-> ReaderRows(fieldnames, Tail(f.lines)),
              fields |-> IF fieldnames # <<>> THEN fieldnames ELSE flds]

\* DictWriter._dict_to_list: the cells of one record in the order of
\* fieldnames, a missing key written as "" (restval), None written as "".
WriterCell(row, k) ==
    IF k \in DOMAIN row /\ row[k] # NoneVal THEN row[k] ELSE ""

WriterLine(row, flds) == [i \in 1..Len(flds) |-> WriterCell(row, flds[i])]

\* DictWriter raises ValueError for a record with a key outside fieldnames
HasExtraKeys(row, flds) == ~(DOMAIN row \subseteq Range(flds))

\* the rows writerows() gets to write: all of them, or those before the first
\* record that raises
RECURSIVE WritableRows(_, _)
WritableRows(rows, flds) ==
    IF rows = <<>> \/ HasExtraKeys(Head(rows), flds) THEN <<>>
    ELSE <<Head(rows)>> \o WritableRows(Tail(rows), flds)

\* save_csv(rows, fields=flds) on the table's own file: the file is opened
\* for writing (truncated), the header is written, then the rows.  raised
\* tells whether writerows() raised ValueError part-way.
save_csv_to(rows, flds) ==
    LET ok == WritableRows(rows, flds)
    IN  [file   |-> FileOf(<<flds>> \o [i \in 1..Len(ok) |-> WriterLine(ok[i], flds)]),
         raised |-> Len(ok) < Len(rows)]

(***************************************************************************)
(* What the last call was and what it returned or raised.                  *)
(***************************************************************************)
Returns(kind) == [kind |-> kind, val |-> <<>>]

ReturnsValue(kind, v) == [kind |-> kind, val |-> v]

\* one more call on the table; the model follows a table through MaxCalls calls
Counted == calls < MaxCalls /\ calls' = calls + 1

(***************************************************************************)
(* Inputs.                                                                 *)
(***************************************************************************)
\* the column names callers pass
Names == {"id", "name"}

\* the cell texts callers pass and type in
Values == {"9", "a"}

\* a column argument: a name the caller knows of, or one the table has now
ColumnArgs == Names \cup Range(fields)

\* a column argument of the calls that read the file first: such a name, or
\* one of the file's header line
FileArgs == ColumnArgs \cup Range(load_csv(file, <<>>).fields)

\* the column lists tables are constructed with (TEST_FIELDS-like)
InitFields == {<<"id", "name">>, <<"name">>}

\* the files a table is constructed on: none, a header alone, a header and a row
InitFiles ==
    {NoFile,
     FileOf(<< <<"id", "name">> >>),
     FileOf(<< <<"id", "name">>, <<"9", "a">>, <<"10", "a">> >>)}

(***************************************************************************)
(* BasicCsv                                                                *)
(***************************************************************************)
\* __init__(file_name, fields): self.fields = fields, then self.data =
\* self._load_csv(file_name), which replaces self.fields by the file's header
BasicCsv_init(flds) ==
    LET loaded == load_csv(file, flds)
    IN  /\ Counted
        /\ fields' = loaded.fields
        /\ data' = loaded.data
        /\ op' = "__init__"
        /\ ret' = Returns("None")
        /\ UNCHANGED file

\* save_csv() with no arguments: self.data under self.fields to self.file_name
save_csv ==
    LET saved == save_csv_to(data, fields)
    IN  /\ Counted
        /\ file' = saved.file
        /\ op' = "save_csv"
        /\ ret' = IF saved.raised THEN Returns("ValueError") ELSE Returns("None")
        /\ UNCHANGED <<fields, data>>

\* the record add_data builds: one input per entry of self.fields, in order
\* (the input for a repeated name overwrites the earlier one)
NewData(flds, inputs) ==
    [k \in Range(flds) |-> inputs[LastIndexOf(flds, k)]]

\* add_data(): the record is appended to self.data and one line is appended
\* to the file (mode "a" creates a missing file; no header is written)
add_data(inputs) ==
    LET new_data == NewData(fields, inputs)
    IN  /\ Counted
        /\ Len(data) < MaxRows
        /\ data' = Append(data, new_data)
        /\ file' = FileOf(Append(file.lines, WriterLine(new_data, fields)))
        /\ op' = "add_data"
        /\ ret' = Returns("None")
        /\ UNCHANGED fields

\* count_row()
count_row ==
    /\ Counted
    /\ op' = "count_row"
    /\ ret' = ReturnsValue("int", Len(data))
    /\ UNCHANGED <<file, fields, data>>

\* the loop of search_column: the first row that matches is returned; a row
\* without the key raises KeyError when the loop reaches it
RECURSIVE SearchRows(_, _, _)
SearchRows(rows, col_name, value) ==
    IF rows = <<>> THEN Returns("None")
    ELSE IF col_name \notin DOMAIN Head(rows) THEN Returns("KeyError")
    ELSE IF Head(rows)[col_name] = value THEN ReturnsValue("row", Head(rows))
    ELSE SearchRows(Tail(rows), col_name, value)

\* search_column(col_name, value)
search_column(col_name, value) ==
    /\ Counted
    /\ op' = "search_column"
    /\ ret' = IF col_name \notin Range(fields) THEN Returns("False")
              ELSE SearchRows(data, col_name, value)
    /\ UNCHANGED <<file, fields, data>>

\* the order sorted() sorts by: float(x[key]) when every key parsed, the text
\* x[key] after float() raised ValueError; reverse swaps the comparison
KeyLess(numeric, a, b) ==
    IF numeric THEN FloatOf(a) < FloatOf(b) ELSE StrLess(a, b)

Precedes(numeric, reverse, a, b) ==
    IF reverse THEN KeyLess(numeric, b, a) ELSE KeyLess(numeric, a, b)

\* an unstable sort: a row goes in front of the rows of equal key too
InsertStable_BeforeEqual(sorted, x, key, numeric, reverse) ==
    LET later == {j \in DOMAIN sorted :
                     ~Precedes(numeric, reverse, sorted[j][key], x[key])}
        at    == IF later = {} THEN Len(sorted) + 1
                 ELSE CHOOSE j \in later : \A k \in later : j <= k
    IN  SubSeq(sorted, 1, at - 1) \o <<x>> \o SubSeq(sorted, at, Len(sorted))

\* sorted() is stable, with reverse too: a row goes in front of the first row
\* that must come after it, and so behind every row of equal key before it
InsertStable(sorted, x, key, numeric, reverse) ==
    LET later == {j \in DOMAIN sorted : Precedes(numeric, reverse, x[key], sorted[j][key])}
        at    == IF later = {} THEN Len(sorted) + 1
                 ELSE CHOOSE j \in later : \A k \in later : j <= k
    IN  SubSeq(sorted, 1, at - 1) \o <<x>> \o SubSeq(sorted, at, Len(sorted))

RECURSIVE Sorted(_, _, _, _)
Sorted(rows, key, numeric, reverse) ==
    IF rows = <<>> THEN <<>>
    ELSE InsertStable(Sorted(SubSeq(rows, 1, Len(rows) - 1), key, numeric, reverse),
                      rows[Len(rows)], key, numeric, reverse)

\* the try / except of sort_by: float() of a None cell raises TypeError, which
\* is not caught; one cell that does not parse sends every row to the text sort
SortRows(rows, key, reverse) ==
    IF \E i \in DOMAIN rows : rows[i][key] = NoneVal THEN Returns("TypeError")
    ELSE IF \A i \in DOMAIN rows : ParsesAsFloat(rows[i][key])
    THEN ReturnsValue("list", Sorted(rows, key, TRUE, reverse))
    ELSE ReturnsValue("list", Sorted(rows, key, FALSE, reverse))

\* sort_by(key=key, reverse=reverse) on the table's own file
sort_by(key, reverse) ==
    LET loaded == load_csv(file, fields)
    IN  /\ Counted
        /\ op' = "sort_by"
        /\ IF FileMissing(file)
           THEN /\ ret' = Returns("FileNotFoundError")
                /\ UNCHANGED fields
           ELSE /\ fields' = loaded.fields
                /\ ret' = IF loaded.data = <<>> THEN ReturnsValue("list", <<>>)
                          ELSE IF key \notin DOMAIN loaded.data[1] THEN Returns("KeyError")
                          ELSE SortRows(loaded.data, key, reverse)
        /\ UNCHANGED <<file, data>>

\* a del_value argument: a str or an int
StrArg(s) == [kind |-> "str", s |-> s, n |-> 0]

IntArg(n) == [kind |-> "int", s |-> "", n |-> n]

DelValues == {StrArg(v) : v \in Values} \cup {IntArg(10)}

\* the rows del_data keeps
Filtered(rows, key, text) ==
    SelectSeq(rows, LAMBDA row : row[key] # text)

\* del_data(del_value, key=key) on the table's own file
del_data(del_value, key) ==
    LET loaded   == load_csv(file, fields)
        filtered == Filtered(loaded.data, key, PyStr(del_value))
        saved    == save_csv_to(filtered, loaded.fields)
    IN  /\ Counted
        /\ op' = "del_data"
        /\ IF FileMissing(file)
           THEN /\ ret' = Returns("FileNotFoundError")
                /\ UNCHANGED <<file, fields, data>>
           ELSE /\ fields' = loaded.fields
                /\ IF \E i \in DOMAIN loaded.data : key \notin DOMAIN loaded.data[i]
                   THEN /\ ret' = Returns("KeyError")
                        /\ UNCHANGED <<file, data>>
                   ELSE /\ file' = saved.file
                        /\ IF saved.raised
                           THEN ret' = Returns("ValueError") /\ UNCHANGED data
                           ELSE ret' = Returns("None") /\ data' = filtered

\* the loop of update_value over the loaded rows
Replaced(rows, column, old_value, new_value) ==
    [i \in DOMAIN rows |->
        IF rows[i][column] = old_value
        THEN [rows[i] EXCEPT ![column] = new_value]
        ELSE rows[i]]

\* update_value(column, old_value, new_value) on the table's own file: the
\* loaded rows are changed and saved; self.data is not assigned
update_value(column, old_value, new_value) ==
    LET loaded == load_csv(file, fields)
        saved  == save_csv_to(Replaced(loaded.data, column, old_value, new_value),
                              loaded.fields)
    IN  /\ Counted
        /\ op' = "update_value"
        /\ UNCHANGED data
        /\ IF FileMissing(file)
           THEN /\ ret' = Returns("FileNotFoundError")
                /\ UNCHANGED <<file, fields>>
           ELSE /\ fields' = loaded.fields
                /\ IF \E i \in DOMAIN loaded.data : column \notin DOMAIN loaded.data[i]
                   THEN /\ ret' = Returns("KeyError")
                        /\ UNCHANGED file
                   ELSE /\ file' = saved.file
                        /\ ret' = IF saved.raised THEN Returns("ValueError")
                                  ELSE Returns("None")

(***************************************************************************)
(* ColMan                                                                  *)
(***************************************************************************)
\* row[k] = v on a dict
SetKey(row, k, v) ==
    [x \in DOMAIN row \cup {k} |-> IF x = k THEN v ELSE row[x]]

\* row.pop(k, None) on a dict
PopKey(row, k) == [x \in DOMAIN row \ {k} |-> row[x]]

\* list.index(x): the first occurrence
IndexOf(seq, x) ==
    CHOOSE i \in DOMAIN seq : seq[i] = x /\ \A j \in DOMAIN seq : seq[j] = x => i <= j

\* list.remove(x): the first occurrence goes
RemoveFirst(seq, x) ==
    LET i == IndexOf(seq, x)
    IN  SubSeq(seq, 1, i - 1) \o SubSeq(seq, i + 1, Len(seq))

\* list.insert(position, x): a negative position counts from the end, and a
\* position beyond either end is moved to that end
InsertAt(seq, position, x) ==
    LET n   == Len(seq)
        rel == IF position < 0 THEN position + n ELSE position
        at  == IF rel < 0 THEN 0 ELSE IF rel > n THEN n ELSE rel
    IN  SubSeq(seq, 1, at) \o <<x>> \o SubSeq(seq, at + 1, n)

\* the default values callers pass: a text, or nothing (None)
DefaultValues == Values \cup {NoneVal}

\* the positions callers pass
PositionArgs == (0 - 1)..(MaxCols + 1)

\* what a mutator returns after its save
AfterSave(saved, kind) ==
    IF saved.raised THEN Returns("ValueError") ELSE Returns(kind)

\* add_column(col_name, value)
add_column(col_name, value) ==
    LET flds  == IF col_name \notin Range(fields) THEN Append(fields, col_name)
                 ELSE fields
        rows  == [i \in DOMAIN data |-> SetKey(data[i], col_name, value)]
        saved == save_csv_to(rows, flds)
    IN  /\ Counted
        /\ Len(flds) <= MaxCols
        /\ fields' = flds
        /\ data' = rows
        /\ file' = saved.file
        /\ op' = "add_column"
        /\ ret' = AfterSave(saved, "None")

\* add_column_position(col_name, position, value)
add_column_position(col_name, position, value) ==
    LET known == col_name \in Range(fields)
        rows  == IF known THEN data
                 ELSE [i \in DOMAIN data |-> SetKey(data[i], col_name, value)]
        flds  == InsertAt(IF known THEN RemoveFirst(fields, col_name) ELSE fields,
                          position, col_name)
        saved == save_csv_to(rows, flds)
    IN  /\ Counted
        /\ Len(flds) <= MaxCols
        /\ fields' = flds
        /\ data' = rows
        /\ file' = saved.file
        /\ op' = "add_column_position"
        /\ ret' = AfterSave(saved, "None")

\* the loop of value_update: rows, the flag and whether row[row_identifier]
\* raised KeyError; the rows before the raising one keep their new value
RECURSIVE UpdateRows(_, _, _, _, _)
UpdateRows(rows, target_name, target_column, new_value, row_identifier) ==
    IF rows = <<>> THEN [rows |-> <<>>, updated |-> FALSE, raised |-> FALSE]
    ELSE IF row_identifier \notin DOMAIN Head(rows)
    THEN [rows |-> rows, updated |-> FALSE, raised |-> TRUE]
    ELSE LET hit  == Head(rows)[row_identifier] = target_name
             row  == IF hit THEN SetKey(Head(rows), target_column, new_value)
                     ELSE Head(rows)
             rest == UpdateRows(Tail(rows), target_name, target_column, new_value,
                                row_identifier)
         IN  [rows    |-> <<row>> \o rest.rows,
              updated |-> hit \/ rest.updated,
              raised  |-> rest.raised]

\* value_update(target_name, target_column, new_value, row_identifier)
value_update(target_name, target_column, new_value, row_identifier) ==
    LET done  == UpdateRows(data, target_name, target_column, new_value, row_identifier)
        saved == save_csv_to(done.rows, fields)
    IN  /\ Counted
        /\ op' = "value_update"
        /\ UNCHANGED fields
        /\ IF target_column \notin Range(fields)
           THEN /\ ret' = Returns("False")
                /\ UNCHANGED <<file, data>>
           ELSE /\ data' = done.rows
                /\ IF done.raised
                   THEN ret' = Returns("KeyError") /\ UNCHANGED file
                   ELSE IF done.updated
                   THEN file' = saved.file /\ ret' = AfterSave(saved, "True")
                   ELSE ret' = Returns("False") /\ UNCHANGED file

\* an rm_column that saves the table before it looks for the column
rm_column_SavesFirst(col_name) ==
    LET rows  == [i \in DOMAIN data |-> PopKey(data[i], col_name)]
        flds  == RemoveFirst(fields, col_name)
        saved == save_csv_to(rows, flds)
    IN  /\ Counted
        /\ op' = "rm_column"
        /\ IF col_name \notin Range(fields)
           THEN /\ ret' = Returns("False")
                /\ file' = save_csv_to(data, fields).file
                /\ UNCHANGED <<fields, data>>
           ELSE /\ data' = rows
                /\ fields' = flds
                /\ file' = saved.file
                /\ ret' = AfterSave(saved, "True")

\* rm_column(col_name)
rm_column(col_name) ==
    LET rows  == [i \in DOMAIN data |-> PopKey(data[i], col_name)]
        flds  == RemoveFirst(fields, col_name)
        saved == save_csv_to(rows, flds)
    IN  /\ Counted
        /\ op' = "rm_column"
        /\ IF col_name \notin Range(fields)
           THEN /\ ret' = Returns("False")
                /\ UNCHANGED <<file, fields, data>>
           ELSE /\ data' = rows
                /\ fields' = flds
                /\ file' = saved.file
                /\ ret' = AfterSave(saved, "True")

\* the loop of rename_column: row[new_name] = row.pop(old_name) raises
\* KeyError at the first row without old_name; the rows before it are renamed
RECURSIVE RenameRows(_, _, _)
RenameRows(rows, old_name, new_name) ==
    IF rows = <<>> THEN [rows |-> <<>>, raised |-> FALSE]
    ELSE IF old_name \notin DOMAIN Head(rows) THEN [rows |-> rows, raised |-> TRUE]
    ELSE LET rest == RenameRows(Tail(rows), old_name, new_name)
         IN  [rows   |-> <<SetKey(PopKey(Head(rows), old_name), new_name,
                                  Head(rows)[old_name])>> \o rest.rows,
              raised |-> rest.raised]

\* rename_column(old_name, new_name)
rename_column(old_name, new_name) ==
    LET done  == RenameRows(data, old_name, new_name)
        flds  == [fields EXCEPT ![IndexOf(fields, old_name)] = new_name]
        saved == save_csv_to(done.rows, flds)
    IN  /\ Counted
        /\ op' = "rename_column"
        /\ IF old_name \notin Range(fields)
           THEN /\ ret' = Returns("False")
                /\ UNCHANGED <<file, fields, data>>
           ELSE /\ data' = done.rows
                /\ IF done.raised
                   THEN ret' = Returns("KeyError") /\ UNCHANGED <<file, fields>>
                   ELSE /\ fields' = flds
                        /\ file' = saved.file
                        /\ ret' = AfterSave(saved, "True")

(***************************************************************************)
(* The table: constructed on some file, then any operation in any order.   *)
(* A table may be constructed anew on the file the last one left.          *)
(***************************************************************************)
Init ==
    \E f \in InitFiles, flds \in InitFields :
        /\ file = f
        /\ fields = load_csv(f, flds).fields
        /\ data = load_csv(f, flds).data
        /\ op = "__init__"
        /\ ret = Returns("None")
        /\ calls = 0

Next ==
    \/ \E flds \in InitFields : BasicCsv_init(flds)
    \/ save_csv
    \/ \E inputs \in [1..Len(fields) -> Values] : add_data(inputs)
    \/ count_row
    \/ \E col_name \in ColumnArgs, value \in Values : search_column(col_name, value)
    \/ \E key \in FileArgs, reverse \in BOOLEAN : sort_by(key, reverse)
    \/ \E del_value \in DelValues, key \in FileArgs : del_data(del_value, key)
    \/ \E column \in FileArgs, old_value \in Values, new_value \in Values :
           update_value(column, old_value, new_value)
    \/ \E col_name \in Names, value \in DefaultValues : add_column(col_name, value)
    \/ \E col_name \in Names, position \in PositionArgs, value \in DefaultValues :
           add_column_position(col_name, position, value)
    \/ \E target_name \in Values, target_column \in ColumnArgs, new_value \in Values,
          row_identifier \in ColumnArgs :
           value_update(target_name, target_column, new_value, row_identifier)
    \/ \E col_name \in ColumnArgs : rm_column(col_name)
    \/ \E old_name \in ColumnArgs, new_name \in Names : rename_column(old_name, new_name)

Spec == Init /\ [][Next]_vars

(***************************************************************************)
(* Properties                                                              *)
(***************************************************************************)
\* what a fresh load of the file yields: its columns and its rows
Stored == load_csv(file, fields)

\* the columns the file holds: its header line
FileColumns == IF file.exists /\ file.lines # <<>> THEN Head(file.lines) ELSE <<>>

\* the last call returned normally (it did not raise)
Returned == ret.kind \notin {"FileNotFoundError", "KeyError", "ValueError", "TypeError"}

StructuralOps == {"add_column", "add_column_position", "rm_column", "rename_column"}

\* the last call saved the table and the save succeeded
SavedOk ==
    \/ op \in {"add_column", "add_column_position", "del_data", "update_value"}
         /\ ret.kind = "None"
    \/ op \in {"rm_column", "rename_column", "value_update"} /\ ret.kind = "True"

\* C1: right after every operation that saves successfully, the columns and
\* rows stored in the file equal the columns and rows in memory.
C1_FileEqualsMemoryAfterSave ==
    SavedOk => Stored.fields = fields /\ Stored.data = data

\* C2: right after a structural operation completes, the key set of every
\* record in memory is the set of the current column names.
C2_KeysEqualColumns ==
    (op \in StructuralOps /\ Returned) =>
        \A i \in DOMAIN data : DOMAIN data[i] = Range(fields)

\* C3: the columns never hold a name twice.
NoDuplicates(seq) == \A i, j \in DOMAIN seq : seq[i] = seq[j] => i = j

C3_ColumnsUnique == NoDuplicates(fields)

\* C4: round trip.  In every reachable state, saving the table and loading the
\* saved file yields the same columns in the same order and the same rows in
\* the same order, every cell equal.
RoundTrip(rows, flds) ==
    LET saved  == save_csv_to(rows, flds)
        loaded == load_csv(saved.file, flds)
    IN  ~saved.raised /\ loaded.fields = flds /\ loaded.data = rows

C4_RoundTrip == RoundTrip(data, fields)

\* C5: search_column has three outcomes: False exactly when the column is not
\* in the columns; else the first record in row order whose cell equals the
\* value; else None.  It changes neither rows, columns nor file.
C5_Matches(col_name, value) ==
    {i \in DOMAIN data : col_name \in DOMAIN data[i] /\ data[i][col_name] = value}

C5_Outcome(col_name, value) ==
    IF col_name \notin Range(fields) THEN Returns("False")
    ELSE IF C5_Matches(col_name, value) = {} THEN Returns("None")
    ELSE ReturnsValue("row",
             data[CHOOSE i \in C5_Matches(col_name, value) :
                      \A j \in C5_Matches(col_name, value) : i <= j])

C5_SearchThreeWay ==
    [][\A col_name \in ColumnArgs, value \in Values :
          search_column(col_name, value) =>
              /\ ret' = C5_Outcome(col_name, value)
              /\ UNCHANGED <<file, fields, data>>]_vars

\* C6: sort_by returns a permutation of the rows freshly loaded from the file,
\* ordered by number when every cell of the key column parses as a number and
\* by text, all rows alike, when one cell does not; rows of equal sort key
\* keep their order, ascending and descending; the rows in memory stay as
\* they are.
C6_Less(numeric, a, b) ==
    IF numeric THEN FloatOf(a) < FloatOf(b) ELSE StrLess(a, b)

\* a comes strictly before b in the requested direction
C6_Before(numeric, reverse, a, b) ==
    IF reverse THEN C6_Less(numeric, b, a) ELSE C6_Less(numeric, a, b)

C6_StableSorted(result, rows, key, reverse) ==
    LET numeric == \A i \in DOMAIN rows : ParsesAsFloat(rows[i][key])
    IN  /\ Len(result) = Len(rows)
        /\ \E p \in Permutations(DOMAIN rows) :
              /\ \A i \in DOMAIN rows : result[i] = rows[p[i]]
              /\ \A i, j \in DOMAIN rows :
                    i < j =>
                      /\ ~C6_Before(numeric, reverse, result[j][key], result[i][key])
                      /\ ~C6_Before(numeric, reverse, result[i][key], result[j][key])
                            => p[i] < p[j]

C6_SortStable ==
    [][\A key \in FileArgs, reverse \in BOOLEAN :
          (/\ sort_by(key, reverse)
           /\ file.exists
           /\ Stored.data # <<>>
           /\ key \in Range(FileColumns))
          => /\ ret'.kind = "list"
             /\ C6_StableSorted(ret'.val, Stored.data, key, reverse)
             /\ data' = data]_vars

\* a numeric sort of three rows that changed their order and kept two
\* different rows of equal key in the file's order
C6_Witness ==
    /\ op = "sort_by"
    /\ ret.kind = "list"
    /\ Len(ret.val) = 3
    /\ ret.val # Stored.data
    /\ \E k \in Range(fields), reverse \in BOOLEAN :
          /\ \A i \in DOMAIN Stored.data : ParsesAsFloat(Stored.data[i][k])
          /\ C6_StableSorted(ret.val, Stored.data, k, reverse)
          /\ \E i, j \in DOMAIN ret.val :
                ret.val[i][k] = ret.val[j][k] /\ ret.val[i] # ret.val[j]

\* C7: on an existing file, sort_by with a key that is not among the loaded
\* file's columns raises KeyError, also when the file holds a header and no
\* row; the empty list is returned only for a file without rows and a known key.
C7_BadKeyRaises ==
    [][\A key \in FileArgs, reverse \in BOOLEAN :
          (sort_by(key, reverse) /\ file.exists /\ key \notin Range(FileColumns))
          => ret'.kind = "KeyError"]_vars

\* C8: del_data on an existing file removes exactly the rows whose key cell
\* equals str(del_value): the file's rows and the rows in memory are then the
\* rows the file held before without the matching ones, the others unchanged
\* and in their order.  When no row matches, the columns and rows a load of the
\* file yields are unchanged.
C8_Kept(rows, key, text) ==
    LET keep == {i \in DOMAIN rows : rows[i][key] # text}
        nth(n) == CHOOSE i \in keep : Cardinality({j \in keep : j < i}) = n - 1
    IN  [n \in 1..Cardinality(keep) |-> rows[nth(n)]]

\* the string form of the value to match
C8_Text(del_value) ==
    IF del_value.kind = "int" THEN IntStr(del_value.n) ELSE del_value.s

C8_Deleted(del_value, key) ==
    LET kept == C8_Kept(Stored.data, key, C8_Text(del_value))
    IN  /\ data' = kept
        /\ load_csv(file', fields').data = kept

C9_MissingFile ==
    [][~file.exists =>
          /\ \A flds \in InitFields :
                BasicCsv_init(flds) =>
                    data' = <<>> /\ fields' = flds /\ ret'.kind = "None" /\ ~file'.exists
          /\ op' \in {"sort_by", "del_data", "update_value"} =>
                /\ ret'.kind = "FileNotFoundError"
                /\ ~file'.exists
                /\ UNCHANGED <<data, fields>>]_vars

\* sort_by has just raised FileNotFoundError on a table without a file
C9_Witness ==
    /\ ~file.exists
    /\ op = "sort_by"
    /\ ret.kind = "FileNotFoundError"

\* C10: value_update returns False and touches nothing when target_column is
\* not a column; else it sets target_column to new_value in exactly the rows
\* whose row_identifier cell equals target_name, returns True exactly when a
\* row matched and writes the file exactly when a row matched; after a True the
\* reloaded file shows new_value in the matched rows.
C10_Matched(target_name, row_identifier) ==
    {i \in DOMAIN data :
        row_identifier \in DOMAIN data[i] /\ data[i][row_identifier] = target_name}

C10_Updated(target_name, target_column, new_value, row_identifier) ==
    LET matched == C10_Matched(target_name, row_identifier)
    IN  /\ fields' = fields
        /\ DOMAIN data' = DOMAIN data
        /\ \A i \in DOMAIN data :
              IF i \in matched
              THEN /\ target_column \in DOMAIN data'[i]
                   /\ data'[i][target_column] = new_value
                   /\ \A k \in DOMAIN data[i] \ {target_column} :
                         k \in DOMAIN data'[i] /\ data'[i][k] = data[i][k]
              ELSE data'[i] = data[i]
        /\ ret'.kind = "True" <=> matched # {}
        /\ matched = {} => file' = file
        /\ matched # {} =>
              /\ file' = save_csv_to(data', fields').file
              /\ LET reloaded == load_csv(file', fields').data
                 IN  /\ Len(reloaded) = Len(data)
                     /\ \A i \in matched : reloaded[i][target_column] = new_value

C10_ValueUpdate ==
    [][\A target_name \in Values, target_column \in ColumnArgs, new_value \in Values,
          row_identifier \in ColumnArgs :
          value_update(target_name, target_column, new_value, row_identifier) =>
              IF target_column \notin Range(fields)
              THEN ret'.kind = "False" /\ UNCHANGED <<file, fields, data>>
              ELSE C10_Updated(target_name, target_column, new_value, row_identifier)]_vars

\* C11: update_value on an existing file, for a column of the file, returns
\* None without raising and leaves the file holding the rows it held before,
\* same count and order, where every cell of the column that equalled
\* old_value is new_value and every other cell is as it was, under the same
\* columns; when no cell matched, the content of the file is unchanged.
C11_Rewritten(rows, column, old_value, new_value) ==
    [i \in DOMAIN rows |->
        [k \in DOMAIN rows[i] |->
            IF k = column /\ rows[i][k] = old_value THEN new_value ELSE rows[i][k]]]

C11_UpdateExact ==
    [][\A column \in FileArgs, old_value \in Values, new_value \in Values :
          (/\ update_value(column, old_value, new_value)
           /\ file.exists
           /\ column \in Range(FileColumns))
          => /\ ret'.kind = "None"
             /\ load_csv(file', fields').fields = Stored.fields
             /\ load_csv(file', fields').data =
                    C11_Rewritten(Stored.data, column, old_value, new_value)
             /\ C11_Rewritten(Stored.data, column, old_value, new_value) = Stored.data
                  => file' = file]_vars

\* C12: add_column appends the name as the last column when it is not yet a
\* column and leaves the columns alone when it is; either way every record then
\* holds the value under the name, its other cells as before, the name occurs
\* once in the columns, and the table is saved: the call returns None and the
\* file holds the columns as its header and every record as a line.
C12_Occurrences(seq, x) == Cardinality({i \in DOMAIN seq : seq[i] = x})

\* the text a cell is written as: nothing for None
C12_CellText(v) == IF v = NoneVal THEN "" ELSE v

C12_Saved ==
    /\ ret'.kind = "None"
    /\ file'.exists
    /\ Len(file'.lines) = 1 + Len(data')
    /\ file'.lines[1] = fields'
    /\ \A i \in DOMAIN data' :
          /\ Len(file'.lines[i + 1]) = Len(fields')
          /\ \A j \in DOMAIN fields' :
                /\ fields'[j] \in DOMAIN data'[i]
                /\ file'.lines[i + 1][j] = C12_CellText(data'[i][fields'[j]])

C12_AddColumn ==
    [][\A col_name \in Names, value \in DefaultValues :
          add_column(col_name, value) =>
              /\ fields' = IF col_name \in Range(fields) THEN fields
                           ELSE fields \o <<col_name>>
              /\ C12_Occurrences(fields', col_name) = 1
              /\ DOMAIN data' = DOMAIN data
              /\ \A i \in DOMAIN data :
                    /\ DOMAIN data'[i] = DOMAIN data[i] \cup {col_name}
                    /\ data'[i][col_name] = value
                    /\ \A k \in DOMAIN data[i] \ {col_name} : data'[i][k] = data[i][k]
              /\ C12_Saved]_vars

\* C13: add_column_position with 0 <= position <= number of columns gives
\* every record the value under a new name and changes no record for a name
\* that is already a column; either way the name then occurs once in the
\* columns, at index position, the other columns keep their order, and the
\* table is saved.
C13_Without(seq, x) ==
    LET keep == {i \in DOMAIN seq : seq[i] # x}
        nth(n) == CHOOSE i \in keep : Cardinality({j \in keep : j < i}) = n - 1
    IN  [n \in 1..Cardinality(keep) |-> seq[nth(n)]]

C13_Placed(col_name, position) ==
    /\ Cardinality({i \in DOMAIN fields' : fields'[i] = col_name}) = 1
    /\ position + 1 \in DOMAIN fields'
    /\ fields'[position + 1] = col_name
    /\ C13_Without(fields', col_name) = C13_Without(fields, col_name)

C13_Rows(col_name, value) ==
    IF col_name \in Range(fields) THEN data' = data
    ELSE /\ DOMAIN data' = DOMAIN data
         /\ \A i \in DOMAIN data :
               /\ DOMAIN data'[i] = DOMAIN data[i] \cup {col_name}
               /\ data'[i][col_name] = value
               /\ \A k \in DOMAIN data[i] \ {col_name} : data'[i][k] = data[i][k]

C13_AddColumnAtPosition ==
    [][\A col_name \in Names, position \in 0..Len(fields), value \in DefaultValues :
          add_column_position(col_name, position, value) =>
              /\ C13_Rows(col_name, value)
              /\ C13_Placed(col_name, position)
              /\ C12_Saved]_vars

\* C14: rm_column and rename_column called with a name that is not in the
\* columns return False and change neither the columns, the rows nor the file.
C14_UnknownColumnNoEffect ==
    [][/\ \A col_name \in ColumnArgs :
             (rm_column(col_name) /\ col_name \notin Range(fields)) =>
                 ret'.kind = "False" /\ UNCHANGED <<file, fields, data>>
       /\ \A old_name \in ColumnArgs, new_name \in Names :
             (rename_column(old_name, new_name) /\ old_name \notin Range(fields)) =>
                 ret'.kind = "False" /\ UNCHANGED <<file, fields, data>>]_vars

\* rm_column or rename_column has just returned False on a table with rows
\* whose file differs from what a save would write
C14_Witness ==
    /\ op \in {"rm_column", "rename_column"}
    /\ ret.kind = "False"
    /\ data # <<>>
    /\ file # save_csv_to(data, fields).file

\* C15: add_data with one value per column appends the record to the rows in
\* memory, the earlier rows as they were, and makes a fresh load of the file
\* yield one row more, the earlier rows as they were; this also on a table
\* constructed on a file that does not exist yet.
C15_Record(row, inputs) ==
    /\ DOMAIN row = Range(fields)
    /\ \A j \in DOMAIN fields :
          (\A n \in DOMAIN fields : fields[n] = fields[j] => n <= j) =>
              row[fields[j]] = inputs[j]

C15_AppendRow ==
    [][\A inputs \in [1..Len(fields) -> Values] :
          add_data(inputs) =>
              /\ Len(data') = Len(data) + 1
              /\ SubSeq(data', 1, Len(data)) = data
              /\ C15_Record(data'[Len(data')], inputs)
              /\ Len(load_csv(file', fields').data) = Len(Stored.data) + 1
              /\ SubSeq(load_csv(file', fields').data, 1, Len(Stored.data)) = Stored.data]_vars

\* C16: add_column_position with a position below 0 or above the number of
\* columns either changes nothing (columns, rows and file as before) or puts
\* the name at index 0 for a position below 0 and at the last index for a
\* position above the number of columns; the name never ends up elsewhere.
C16_Rejected == UNCHANGED <<file, fields, data>>

C16_Clamped(col_name, position) ==
    /\ fields' # <<>>
    /\ fields'[IF position < 0 THEN 1 ELSE Len(fields')] = col_name
    /\ \A i \in DOMAIN fields' :
          fields'[i] = col_name => i = (IF position < 0 THEN 1 ELSE Len(fields'))

C16_PositionOutOfRange ==
    [][\A col_name \in Names, position \in PositionArgs, value \in DefaultValues :
          (/\ add_column_position(col_name, position, value)
           /\ (position < 0 \/ position > Len(fields)))
          => (C16_Rejected \/ C16_Clamped(col_name, position))]_vars

\* C17: no lost update.  When the first call on a table was an update_value
\* that rewrote cells of the file, the next operation, if it is a save or one
\* that does not target those cells (add_data, search_column, sort_by,
\* add_column, add_column_position, rm_column or rename_column of another
\* column, value_update on another row or column), leaves the new value in
\* those cells of the file.
\* the cells the update_value rewrote: the table was constructed from the file,
\* so they are the cells where the file now differs from the rows in memory
C17_Rewritten ==
    {c \in (DOMAIN Stored.data) \X Range(Stored.fields) :
        /\ c[1] \in DOMAIN data
        /\ c[2] \in DOMAIN data[c[1]]
        /\ data[c[1]][c[2]] # Stored.data[c[1]][c[2]]}

\* the step is a save or an operation that does not target the cell of row i
\* and column k
C17_OtherOperation(i, k) ==
    \/ save_csv
    \/ \E inputs \in [1..Len(fields) -> Values] : add_data(inputs)
    \/ \E col_name \in ColumnArgs, value \in Values : search_column(col_name, value)
    \/ \E key \in FileArgs, reverse \in BOOLEAN : sort_by(key, reverse)
    \/ \E col_name \in Names \ {k}, value \in DefaultValues : add_column(col_name, value)
    \/ \E col_name \in Names \ {k}, position \in PositionArgs, value \in DefaultValues :
           add_column_position(col_name, position, value)
    \/ \E col_name \in ColumnArgs \ {k} : rm_column(col_name)
    \/ \E old_name \in ColumnArgs \ {k}, new_name \in Names \ {k} :
           rename_column(old_name, new_name)
    \/ \E target_name \in Values, target_column \in ColumnArgs, new_value \in Values,
          row_identifier \in ColumnArgs :
           /\ value_update(target_name, target_column, new_value, row_identifier)
           /\ \/ target_column # k
              \/ row_identifier \notin DOMAIN data[i]
              \/ data[i][row_identifier] # target_name

\* the file still holds the cell of row i and column k as it is now
C17_Kept(i, k) ==
    LET after == load_csv(file', fields').data
    IN  /\ i \in DOMAIN after
        /\ k \in DOMAIN after[i]
        /\ after[i][k] = Stored.data[i][k]

C17_NoLostUpdate ==
    [][(calls = 1 /\ op = "update_value" /\ ret.kind = "None") =>
          \A c \in C17_Rewritten :
              C17_OtherOperation(c[1], c[2]) => C17_Kept(c[1], c[2])]_vars

====
